---- MODULE Spec2Model ----
(***************************************************************************)
(* The e-commerce backend as a state machine over its database tables.     *)
(* Every request handler is translated from its controller.  A handler     *)
(* that awaits several Prisma calls takes one step per call, so that the   *)
(* requests of different clients interleave at the awaits as they do on    *)
(* the Node event loop; a handler with a single call is one step.  The     *)
(* datasource is MySQL or PostgreSQL (the full-text `search` filter is     *)
(* used): the writes of a transaction are invisible to other requests      *)
(* until it commits, the rows it deletes stay locked until then, and a     *)
(* plain read takes no lock.                                               *)
(***************************************************************************)
EXTENDS Integers, FiniteSets, Sequences, TLC

VARIABLES users, addresses, price, cartItem, nextCartId, nextAddressId,
          order, orderProduct, orderEvent, ghost, proc

vars == <<users, addresses, price, cartItem, nextCartId, nextAddressId,
          order, orderProduct, orderEvent, ghost, proc>>

(* ------------------------------ bounds -------------------------------- *)
MaxCartId == 2
MaxAddressId == 2
MaxOrders == 1
MaxQuantity == 2
MaxEvents == 3
MaxUsers == 3
MaxPathLen == 2

Procs == {1, 2}
Users == {1, 2}
Products == {1, 2}
(* a productId no product row has *)
NoProduct == 9
Quantities == 1..MaxQuantity
(* quantity: z.number() of the cart schemas accepts any number *)
BodyQuantities == (0 - 1)..MaxQuantity
Prices == {1, 2}
CartIds == 1..MaxCartId
AddressIds == 1..MaxAddressId
(* two checkouts in flight may both commit *)
MaxRaceOrders == MaxOrders + 1
OrderIds == 1..MaxRaceOrders
UserIds == 1..MaxUsers
Emails == 1..MaxUsers
Roles == {"ADMIN", "USER"}

(* null / undefined of the source, for ids and for the formatted address *)
Null == 0

(* the authorization header of a request: absent, or a token that          *)
(* jsonwebtoken.verify rejects (malformed, signed with another secret,     *)
(* expired), or a token signed with JWT_SECRET whose payload names userId  *)
NoToken == [kind |-> "absent", userId |-> Null]
Tokens ==
  {NoToken} \cup {[kind |-> k, userId |-> Null] : k \in {"malformed", "badSignature", "expired"}}
    \cup {[kind |-> "valid", userId |-> u] : u \in UserIds}

(* no error thrown, no exception passed on, no body sent *)
NoError == [class |-> "none"]
NoJson == [message |-> "none"]

(* ------------------------------ requests ------------------------------ *)
(* A request in flight: the handler, where it stands, request.user, the    *)
(* parameters and body of the request, the handler's local variables, the  *)
(* writes of its open transaction, and at the end the response.            *)
Idle ==
  [op |-> "none", pc |-> "idle", user |-> Null,
   defaultShippingAddressId |-> Null, id |-> Null, quantity |-> 0,
   cartItems |-> <<>>, found |-> Null, foundQuantity |-> 0,
   totalPrice |-> 0, address |-> Null,
   txOrder |-> FALSE, txEvent |-> FALSE, txDelete |-> {},
   shippingId |-> Null, billingId |-> Null,
   token |-> NoToken, payload |-> Null, role |-> "none", handled |-> FALSE,
   newRole |-> "none", email |-> Null, password |-> Null,
   thrown |-> NoError, exception |-> NoError, sent |-> 0, json |-> NoJson,
   router |-> "none", method |-> "none", path |-> <<>>, gates |-> <<>>,
   db |-> "none", http |-> "none", handlers |-> FALSE, exited |-> FALSE,
   status |-> 0, body |-> "none", data |-> {}]

(* authMiddleware resolves the token to the user row and stores a copy of  *)
(* it on the request: request.user keeps the values read at that moment.   *)
Authenticated(u, op, id) ==
  [Idle EXCEPT !.op = op, !.pc = "start", !.user = u, !.id = id,
               !.defaultShippingAddressId = users[u].defaultShippingAddressId]

IsIdle(p) == proc[p].pc = "idle"

(* the connections are interchangeable: a request takes the first free one *)
Free(p) == IsIdle(p) /\ \A q \in Procs : q < p => ~IsIdle(q)

Goto(p, rec) == proc' = [proc EXCEPT ![p] = rec]

(* response.json(...) or, through errorHandler and errorMiddleware, the    *)
(* error response: the request is answered                                 *)
Answered(req, st, body, data) ==
  [Idle EXCEPT !.op = req.op, !.pc = "done", !.user = req.user, !.id = req.id,
               !.status = st, !.body = body, !.data = data]

Respond(p, st, body, data) == Goto(p, Answered(proc[p], st, body, data))

Reply(p, u, op, id, st, body, data) ==
  Goto(p, Answered(Authenticated(u, op, id), st, body, data))

finish(p) ==
  /\ proc[p].pc = "done"
  /\ Goto(p, Idle)
  /\ UNCHANGED <<users, addresses, price, cartItem, nextCartId, nextAddressId,
                 order, orderProduct, orderEvent, ghost>>

(* ------------------------------ helpers ------------------------------- *)
Without(f, ids) == [i \in (DOMAIN f) \ ids |-> f[i]]

(* the rows of a findMany as the array the query returns (by id) *)
RECURSIVE ArrayOf(_)
ArrayOf(rows) ==
  IF rows = {} THEN <<>>
  ELSE LET first == CHOOSE r \in rows : \A s \in rows : r.id <= s.id
       IN  <<first>> \o ArrayOf(rows \ {first})

(* rows a not yet committed checkout has deleted: locked until its commit *)
Locked == UNION {proc[p].txDelete : p \in Procs}

(* compute() of the formattedAddress result extension: the fields of the   *)
(* address row joined into one string, here the tag of the row it renders  *)
formattedAddress(id) == id

(* ============================== cart ================================== *)

(* the duplicate check left out: every add inserts a row *)
addItemToCart_findNone(u, productId) == {}

(* cartItem.findFirst({where: {productId}}): any row of that product, no   *)
(* matter whose; without orderBy the database picks the row.               *)
addItemToCart_findFirst(u, productId) ==
  {c \in DOMAIN cartItem : cartItem[c].productId = productId}

addItemToCart_find(p, u, productId, quantity) ==
  /\ Free(p)
  /\ UNCHANGED <<users, addresses, price, cartItem, nextCartId, nextAddressId,
                 order, orderProduct, orderEvent, ghost>>
  /\ LET req == [Authenticated(u, "addItemToCart", productId) EXCEPT
                   !.quantity = quantity]
     IN  IF productId \notin Products
         THEN Reply(p, u, "addItemToCart", productId, 404, "PRODUCT_NOT_FOUND", {})
         ELSE IF addItemToCart_findFirst(u, productId) = {}
         THEN /\ nextCartId <= MaxCartId
              /\ Goto(p, [req EXCEPT !.pc = "create"])
         ELSE \E c \in addItemToCart_findFirst(u, productId) :
                /\ cartItem[c].quantity + quantity \in (0 - MaxQuantity)..MaxQuantity
                /\ Goto(p, [req EXCEPT !.pc = "update", !.found = c,
                                       !.foundQuantity = cartItem[c].quantity])

(* data: {quantity: cartItem.quantity + validatedData.quantity} *)
addItemToCart_quantity(old, added) == old + added

addItemToCart_update(p) ==
  /\ proc[p].pc = "update"
  /\ proc[p].found \notin Locked
  /\ UNCHANGED <<users, addresses, price, nextCartId, nextAddressId,
                 order, orderProduct, orderEvent, ghost>>
  /\ IF proc[p].found \in DOMAIN cartItem
     THEN /\ cartItem' = [cartItem EXCEPT ![proc[p].found].quantity =
                 addItemToCart_quantity(proc[p].foundQuantity, proc[p].quantity)]
          /\ Respond(p, 200, "cartUpdated", {proc[p].found})
     ELSE /\ UNCHANGED cartItem
          /\ Respond(p, 404, "PRODUCT_NOT_FOUND", {})

addItemToCart_create(p) ==
  /\ proc[p].pc = "create"
  /\ nextCartId <= MaxCartId
  /\ cartItem' = cartItem @@ (nextCartId :>
        [userId |-> proc[p].user, productId |-> proc[p].id,
         quantity |-> proc[p].quantity])
  /\ nextCartId' = nextCartId + 1
  /\ UNCHANGED <<users, addresses, price, nextAddressId,
                 order, orderProduct, orderEvent, ghost>>
  /\ Respond(p, 200, "cart", {nextCartId})

(* the where clause {id, userId} of deleteItemFromCart and changeQuantity *)
OwnCartItem(u, id) == id \in DOMAIN cartItem /\ cartItem[id].userId = u

deleteItemFromCart(p, u, id) ==
  /\ Free(p)
  /\ id \notin Locked
  /\ UNCHANGED <<users, addresses, price, nextCartId, nextAddressId,
                 order, orderProduct, orderEvent, ghost>>
  /\ IF OwnCartItem(u, id)
     THEN /\ cartItem' = Without(cartItem, {id})
          /\ Reply(p, u, "deleteItemFromCart", id, 200, "success", {})
     ELSE /\ UNCHANGED cartItem
          /\ Reply(p, u, "deleteItemFromCart", id, 404, "PRODUCT_NOT_FOUND", {})

changeQuantity(p, u, id, quantity) ==
  /\ Free(p)
  /\ id \notin Locked
  /\ UNCHANGED <<users, addresses, price, nextCartId, nextAddressId,
                 order, orderProduct, orderEvent, ghost>>
  /\ IF OwnCartItem(u, id)
     THEN /\ cartItem' = [cartItem EXCEPT ![id].quantity = quantity]
          /\ Reply(p, u, "changeQuantity", id, 200, "cartUpdated", {})
     ELSE /\ UNCHANGED cartItem
          /\ Reply(p, u, "changeQuantity", id, 500, "INTERNAL_EXCEPTION", {})

(* ============================== orders ================================ *)

(* cartItem.findMany({where: {userId}, include: {product: true}}) *)
findManyCart(u) ==
  ArrayOf({[id |-> c, productId |-> cartItem[c].productId,
            quantity |-> cartItem[c].quantity,
            price |-> price[cartItem[c].productId]] :
           c \in {d \in DOMAIN cartItem : cartItem[d].userId = u}})

(* cartItems.reduce((prev, cur) => prev + cur.quantity * cur.product.price, 0) *)
RECURSIVE reduceTotal(_, _)
reduceTotal(items, prevValue) ==
  IF items = <<>> THEN prevValue
  ELSE reduceTotal(Tail(items),
                   prevValue + Head(items).quantity * Head(items).price)

(* the quantity left out of the product *)
RECURSIVE totalPriceNoQuantity(_)
totalPriceNoQuantity(items) ==
  IF items = <<>> THEN 0
  ELSE Head(items).price + totalPriceNoQuantity(Tail(items))

totalPrice(items) == reduceTotal(items, 0)

(* the empty-cart check left out *)
CartIsEmptyNever(items) == FALSE

(* if (cartItems.length == 0) *)
CartIsEmpty(items) == Len(items) = 0

(* every line copied with quantity 1 *)
orderProductsOfUnit(orderId, items) ==
  [i \in DOMAIN items |->
     [orderId |-> orderId, productId |-> items[i].productId, quantity |-> 1]]

(* products: {create: cartItems.map(cart => ({productId, quantity}))} *)
orderProductsOf(orderId, items) ==
  [i \in DOMAIN items |->
     [orderId |-> orderId, productId |-> items[i].productId,
      quantity |-> items[i].quantity]]

InFlightOrders == Cardinality({p \in Procs : proc[p].op = "createOrder"
                                             /\ proc[p].pc # "done"})

UNCHANGED_db ==
  UNCHANGED <<users, addresses, price, cartItem, nextCartId, nextAddressId,
              order, orderProduct, orderEvent, ghost>>

createOrder_auth(p, u, maxOrders) ==
  /\ Free(p)
  /\ Cardinality(DOMAIN order) + InFlightOrders < maxOrders
  /\ UNCHANGED_db
  /\ Goto(p, [Authenticated(u, "createOrder", Null) EXCEPT !.pc = "findMany"])

createOrder_findMany(p) ==
  /\ proc[p].pc = "findMany"
  /\ UNCHANGED_db
  /\ LET items == findManyCart(proc[p].user)
     IN  IF CartIsEmpty(items)
         THEN Respond(p, 200, "cart is empty", {})
         ELSE Goto(p, [proc[p] EXCEPT !.pc = "address", !.cartItems = items,
                                      !.totalPrice = totalPrice(items)])

(* address.findFirst({where: {id: request.user.defaultShippingAddressId}}) *)
createOrder_address(p) ==
  /\ proc[p].pc = "address"
  /\ UNCHANGED_db
  /\ LET id == proc[p].defaultShippingAddressId
     IN  Goto(p, [proc[p] EXCEPT !.pc = "order",
                    !.address = IF id \in DOMAIN addresses
                                THEN formattedAddress(id) ELSE Null])

(* order.create inside the transaction: written, not yet visible *)
createOrder_order(p) ==
  /\ proc[p].pc = "order"
  /\ UNCHANGED_db
  /\ Goto(p, [proc[p] EXCEPT !.pc = "orderEvent", !.txOrder = TRUE])

createOrder_event(p) ==
  /\ proc[p].pc = "orderEvent"
  /\ UNCHANGED_db
  /\ Goto(p, [proc[p] EXCEPT !.pc = "deleteMany", !.txEvent = TRUE])

(* the where clause left out: every row of the table *)
deleteMany_all(u) == DOMAIN cartItem

(* the where clause {userId: request.user.id} of deleteMany *)
deleteMany_where(u) == {c \in DOMAIN cartItem : cartItem[c].userId = u}

(* cartItem.deleteMany({where: {userId}}): the rows present now, which stay *)
(* locked until the transaction commits                                     *)
createOrder_deleteMany(p) ==
  /\ proc[p].pc = "deleteMany"
  /\ LET rows == deleteMany_where(proc[p].user)
     IN  /\ rows \cap Locked = {}
         /\ Goto(p, [proc[p] EXCEPT !.pc = "commit", !.txDelete = rows])
  /\ UNCHANGED_db

(* what the open transaction of request req has written so far *)
TxWrites(req, orderId) ==
  /\ order' = IF req.txOrder
              THEN order @@ (orderId :>
                     [userId |-> req.user, netAmount |-> req.totalPrice,
                      address |-> req.address, status |-> "PENDING"])
              ELSE order
  /\ orderProduct' = IF req.txOrder
                     THEN orderProduct \o orderProductsOf(orderId, req.cartItems)
                     ELSE orderProduct
  /\ orderEvent' = IF req.txEvent
                   THEN Append(orderEvent, [orderId |-> orderId, status |-> "PENDING"])
                   ELSE orderEvent
  /\ cartItem' = Without(cartItem, req.txDelete)
  /\ ghost' = IF req.txOrder THEN ghost @@ (orderId :> req.cartItems) ELSE ghost

(* the callback of $transaction returned: its writes become visible at once *)
TxCommit(req, orderId) == TxWrites(req, orderId)

(* the calls made on the client instead of the transaction: what was     *)
(* written before the failure stays                                       *)
TxRollbackNone(req, orderId) == TxWrites(req, orderId)

(* a call of the callback rejected: $transaction rolls back and rethrows,  *)
(* none of its writes is kept                                              *)
TxRollback(req, orderId) ==
  UNCHANGED <<order, orderProduct, orderEvent, cartItem, ghost>>

createOrder_commit(p) ==
  /\ proc[p].pc = "commit"
  /\ TxCommit(proc[p], Cardinality(DOMAIN order) + 1)
  /\ Respond(p, 200, "order", {Cardinality(DOMAIN order) + 1})
  /\ UNCHANGED <<users, addresses, price, nextCartId, nextAddressId>>

createOrder_fail(p) ==
  /\ proc[p].op = "createOrder"
  /\ proc[p].pc \in {"address", "order", "orderEvent", "deleteMany", "commit"}
  /\ TxRollback(proc[p], Cardinality(DOMAIN order) + 1)
  /\ UNCHANGED <<users, addresses, price, nextCartId, nextAddressId>>
  /\ Goto(p, [Answered(proc[p], 500, "INTERNAL_EXCEPTION", {}) EXCEPT
                !.txOrder = proc[p].txOrder, !.txEvent = proc[p].txEvent])

(* order.update({where: {id}, data: {status: "CANCELED"}}): the where      *)
(* clause names the id alone.  The call rejects when no row has the id,    *)
(* and may reject in the database (status is an enum column the schema     *)
(* declares); either way the catch answers ORDER_NOT_FOUND.                *)
cancelOrder_where(u, id) == id \in DOMAIN order

cancelOrder_update(p, u, id) ==
  /\ Free(p)
  /\ Len(orderEvent) < MaxEvents
  /\ UNCHANGED <<users, addresses, price, cartItem, nextCartId, nextAddressId,
                 orderProduct, orderEvent, ghost>>
  /\ \E accepted \in BOOLEAN :
       IF cancelOrder_where(u, id) /\ accepted
       THEN /\ order' = [order EXCEPT ![id].status = "CANCELED"]
            /\ Goto(p, [Authenticated(u, "cancelOrder", id) EXCEPT !.pc = "event"])
       ELSE /\ UNCHANGED order
            /\ Reply(p, u, "cancelOrder", id, 404, "ORDER_NOT_FOUND", {})

(* the event of the order rewritten instead of a new one created *)
cancelOrder_eventUpdate(events, id) ==
  [i \in DOMAIN events |->
     IF events[i].orderId = id THEN [events[i] EXCEPT !.status = "CANCELED"]
     ELSE events[i]]

(* orderEvent.create({data: {orderId: order.id, status: "CANCELED"}}) *)
cancelOrder_eventCreate(events, id) ==
  Append(events, [orderId |-> id, status |-> "CANCELED"])

cancelOrder_event(p) ==
  /\ proc[p].pc = "event"
  /\ UNCHANGED <<users, addresses, price, cartItem, nextCartId, nextAddressId,
                 order, orderProduct, ghost>>
  /\ \E accepted \in BOOLEAN :
       IF accepted
       THEN /\ orderEvent' = cancelOrder_eventCreate(orderEvent, proc[p].id)
            /\ Respond(p, 200, "order", {proc[p].id})
       ELSE /\ UNCHANGED orderEvent
            /\ Respond(p, 404, "ORDER_NOT_FOUND", {})

(* order.findFirstOrThrow({where: {id}, include: {products, events}}) *)
getOrderById_where(u, id) == id \in DOMAIN order

(* netAmount computed from today's prices instead of read from the row *)
OrderJsonLive(id) ==
  [id |-> id, userId |-> order[id].userId,
   netAmount |-> totalPrice([i \in DOMAIN ghost[id] |->
                    [ghost[id][i] EXCEPT !.price = price[ghost[id][i].productId]]]),
   address |-> order[id].address, status |-> order[id].status]

(* the order row as response.json(order) sends it *)
OrderJson(id) ==
  [id |-> id, userId |-> order[id].userId, netAmount |-> order[id].netAmount,
   address |-> order[id].address, status |-> order[id].status]

getOrderById(p, u, id) ==
  /\ Free(p)
  /\ UNCHANGED_db
  /\ IF getOrderById_where(u, id)
     THEN Reply(p, u, "getOrderById", id, 200, "order", {OrderJson(id)})
     ELSE Reply(p, u, "getOrderById", id, 404, "ORDER_NOT_FOUND", {})

(* ============================= products =============================== *)

(* adminMiddleware, then product.update({where: {id}, data: request.body}) *)
updateProduct(p, u, id, newPrice) ==
  /\ Free(p)
  /\ UNCHANGED <<users, addresses, cartItem, nextCartId, nextAddressId,
                 order, orderProduct, orderEvent, ghost>>
  /\ IF users[u].role # "ADMIN"
     THEN /\ UNCHANGED price
          /\ Reply(p, u, "updateProduct", id, 401, "UNAUTHORIZED", {})
     ELSE IF id \in Products
     THEN /\ price' = [price EXCEPT ![id] = newPrice]
          /\ Reply(p, u, "updateProduct", id, 200, "product", {})
     ELSE /\ UNCHANGED price
          /\ Reply(p, u, "updateProduct", id, 404, "PRODUCT_NOT_FOUND", {})

(* ============================ addresses =============================== *)

addAddress(p, u) ==
  /\ Free(p)
  /\ nextAddressId <= MaxAddressId
  /\ addresses' = addresses @@ (nextAddressId :> [userId |-> u])
  /\ nextAddressId' = nextAddressId + 1
  /\ Reply(p, u, "addAddress", nextAddressId, 200, "address", {})
  /\ UNCHANGED <<users, price, cartItem, nextCartId,
                 order, orderProduct, orderEvent, ghost>>

(* address.delete({where: {id}}) *)
deleteAddress_where(u, id) == id \in DOMAIN addresses

deleteAddress(p, u, id) ==
  /\ Free(p)
  /\ UNCHANGED <<users, price, cartItem, nextCartId, nextAddressId,
                 order, orderProduct, orderEvent, ghost>>
  /\ IF deleteAddress_where(u, id)
     THEN /\ addresses' = Without(addresses, {id})
          /\ Reply(p, u, "deleteAddress", id, 200, "success", {})
     ELSE /\ UNCHANGED addresses
          /\ Reply(p, u, "deleteAddress", id, 404, "ADDRESS_NOT_FOUND", {})

(* updateUser: an address id the body gives is looked up and must be the   *)
(* caller's; an id the body leaves out stays as it is                      *)
updateUser_check(u, id) ==
  IF id = Null THEN "ok"
  ELSE IF id \notin DOMAIN addresses THEN "ADDRESS_NOT_FOUND"
  ELSE IF addresses[id].userId # u THEN "ADDRESS_DOES_NOT_BELONG"
  ELSE "ok"

updateUser_shipping(p, u, shippingId, billingId) ==
  /\ Free(p)
  /\ UNCHANGED_db
  /\ LET r == updateUser_check(u, shippingId)
     IN  IF r = "ok"
         THEN Goto(p, [Authenticated(u, "updateUser", Null) EXCEPT !.pc = "billing",
                         !.shippingId = shippingId, !.billingId = billingId])
         ELSE Reply(p, u, "updateUser", Null,
                    IF r = "ADDRESS_NOT_FOUND" THEN 404 ELSE 400, r, {})

updateUser_billing(p) ==
  /\ proc[p].pc = "billing"
  /\ UNCHANGED_db
  /\ LET r == updateUser_check(proc[p].user, proc[p].billingId)
     IN  IF r = "ok" THEN Goto(p, [proc[p] EXCEPT !.pc = "userUpdate"])
         ELSE Respond(p, IF r = "ADDRESS_NOT_FOUND" THEN 404 ELSE 400, r, {})

updateUser_update(p) ==
  /\ proc[p].pc = "userUpdate"
  /\ users' = [users EXCEPT
       ![proc[p].user].defaultShippingAddressId =
           IF proc[p].shippingId # Null THEN proc[p].shippingId ELSE @,
       ![proc[p].user].defaultBillingAddressId =
           IF proc[p].billingId # Null THEN proc[p].billingId ELSE @]
  /\ UNCHANGED <<addresses, price, cartItem, nextCartId, nextAddressId,
                 order, orderProduct, orderEvent, ghost>>
  /\ Respond(p, 200, "user", {})

(* ======================= accounts and the gates ======================= *)

(* jsonwebtoken.verify accepting a token whose exp has passed *)
jwt_verifyIgnoreExpiration(token) == token.kind \in {"valid", "expired"}

(* jsonwebtoken.verify(token, JWT_SECRET) returns the payload; it throws   *)
(* on a malformed token, a wrong signature and an expired token            *)
jwt_verify(token) == token.kind = "valid"

(* authMiddleware up to its await: the header, then verify *)
authMiddleware_verify(p, req) ==
  /\ Free(p)
  /\ UNCHANGED_db
  /\ IF req.token.kind = "absent" \/ ~jwt_verify(req.token)
     THEN Goto(p, [Answered(req, 401, "UNAUTHORIZED", {}) EXCEPT !.token = req.token])
     ELSE Goto(p, [req EXCEPT !.pc = "authFind", !.payload = req.token.userId])

(* GET /auth/current-user, [authMiddleware] *)
request_getCurrentUser(p, token) ==
  authMiddleware_verify(p, [Idle EXCEPT !.op = "getCurrentUser", !.token = token])

(* PUT /users/:id/role, [authMiddleware, adminMiddleware] *)
request_changeUserRole(p, token, id, role) ==
  authMiddleware_verify(p, [Idle EXCEPT !.op = "changeUserRole", !.token = token,
                                        !.id = id, !.newRole = role])

(* the role check left out *)
adminMiddleware_any(role) == TRUE

(* adminMiddleware: user.role == "ADMIN" on the user authMiddleware stored *)
adminMiddleware(role) == role = "ADMIN"

(* authMiddleware after user.findFirst({where: {id: payload.userId}}):     *)
(* no user, Unauthorized; else request.user = user and next(), which runs  *)
(* adminMiddleware on the routes that name it, then the handler up to its  *)
(* own database call                                                       *)
authMiddleware_find(p) ==
  /\ proc[p].pc = "authFind"
  /\ UNCHANGED_db
  /\ IF proc[p].payload \notin DOMAIN users
     THEN Goto(p, [Answered(proc[p], 401, "UNAUTHORIZED", {}) EXCEPT
                     !.token = proc[p].token])
     ELSE LET user == users[proc[p].payload]
              req == [proc[p] EXCEPT
                        !.user = proc[p].payload, !.role = user.role,
                        !.defaultShippingAddressId = user.defaultShippingAddressId]
          IN  IF req.op = "getCurrentUser"
              THEN Goto(p, [Answered(req, 200, "user", {req.user}) EXCEPT
                              !.token = req.token, !.role = req.role,
                              !.handled = TRUE])
              ELSE IF adminMiddleware(req.role)
              THEN Goto(p, [req EXCEPT !.pc = "roleUpdate", !.handled = TRUE])
              ELSE Goto(p, [Answered(req, 401, "UNAUTHORIZED", {}) EXCEPT
                              !.token = req.token, !.role = req.role])

(* changeUserRole: user.update({where: {id}, data: {role: body.role}}) *)
changeUserRole_update(p) ==
  /\ proc[p].pc = "roleUpdate"
  /\ UNCHANGED <<addresses, price, cartItem, nextCartId, nextAddressId,
                 order, orderProduct, orderEvent, ghost>>
  /\ IF proc[p].id \in DOMAIN users
     THEN /\ users' = [users EXCEPT ![proc[p].id].role = proc[p].newRole]
          /\ Goto(p, [Answered(proc[p], 200, "user", {proc[p].id}) EXCEPT
                        !.role = proc[p].role, !.handled = TRUE,
                        !.token = proc[p].token])
     ELSE /\ UNCHANGED users
          /\ Goto(p, [Answered(proc[p], 404, "USER_NOT_FOUND", {}) EXCEPT
                        !.role = proc[p].role, !.handled = TRUE,
                        !.token = proc[p].token])

(* bcrypt: hashSync(password, 10) and compareSync(password, hash).  The    *)
(* passwords are tags like the emails, and an account is created with the  *)
(* password that carries the tag of its email.                             *)
hashSync(password) == [hash |-> password]

compareSync(password, hash) == hash = hashSync(password)

(* the token signed with a secret that is not JWT_SECRET *)
jwt_signOtherSecret(userId) == [kind |-> "badSignature", userId |-> Null]

(* jsonwebtoken.sign({userId: user.id}, JWT_SECRET) *)
jwt_sign(userId) == [kind |-> "valid", userId |-> userId]

(* logIn: user.findFirst({where: {email}}), then compareSync and sign *)
logIn(p, email, password) ==
  /\ Free(p)
  /\ UNCHANGED_db
  /\ LET found == {u \in DOMAIN users : users[u].email = email}
         req == [Idle EXCEPT !.op = "logIn", !.email = email, !.password = password]
     IN  IF found = {}
         THEN Goto(p, [Answered(req, 404, "USER_NOT_FOUND", {}) EXCEPT
                         !.email = email, !.password = password])
         ELSE \E u \in found :
                IF ~compareSync(password, users[u].password)
                THEN Goto(p, [Answered(req, 400, "INCORRECT_PASSWORD", {}) EXCEPT
                                !.email = email, !.password = password])
                ELSE Goto(p, [Answered(req, 200, "user", {u}) EXCEPT
                                !.email = email, !.password = password,
                                !.user = u, !.token = jwt_sign(u)])

(* signUp: user.findFirst({where: {email}}) *)
signUp_find(p, email) ==
  /\ Free(p)
  /\ UNCHANGED_db
  /\ LET req == [Idle EXCEPT !.op = "signUp", !.email = email]
     IN  IF \E u \in DOMAIN users : users[u].email = email
         THEN Goto(p, Answered(req, 400, "USER_ALREADY_EXISTS", {}))
         ELSE Goto(p, [req EXCEPT !.pc = "userCreate"])

(* the role of a new row: the data of user.create names none, the column   *)
(* defaults to USER                                                        *)
signUp_role == "USER"

(* signUp: user.create({data: {name, email, password}}); email is unique   *)
signUp_create(p) ==
  /\ proc[p].pc = "userCreate"
  /\ UNCHANGED <<addresses, price, cartItem, nextCartId, nextAddressId,
                 order, orderProduct, orderEvent, ghost>>
  /\ IF \E u \in DOMAIN users : users[u].email = proc[p].email
     THEN /\ UNCHANGED users
          /\ Respond(p, 500, "INTERNAL_EXCEPTION", {})
     ELSE /\ Cardinality(DOMAIN users) < MaxUsers
          /\ users' = users @@ ((Cardinality(DOMAIN users) + 1) :>
                [email |-> proc[p].email, password |-> hashSync(proc[p].email),
                 role |-> signUp_role,
                 defaultShippingAddressId |-> Null,
                 defaultBillingAddressId |-> Null])
          /\ Respond(p, 200, "user", {Cardinality(DOMAIN users) + 1})

(* ========================= errors at the boundary ===================== *)

(* enum ErrorCode *)
ErrorCode ==
  [USER_NOT_FOUND |-> 1001, USER_ALREADY_EXISTS |-> 1002,
   INCORRECT_PASSWORD |-> 1003, UNAUTHORIZED |-> 1004,
   PRODUCT_NOT_FOUND |-> 1005, ADDRESS_NOT_FOUND |-> 1006,
   ADDRESS_DOES_NOT_BELONG |-> 1007, UNPROCESSABLE_ENTITY |-> 2001,
   INTERNAL_EXCEPTION |-> 3001]

(* the errors member of an exception: null, undefined, or the issues *)
ErrorsNull == [kind |-> "null"]
ErrorsUndefined == [kind |-> "undefined"]
ErrorsOf(issues) == [kind |-> "issues", issues |-> issues]

(* class HttpException extends Error *)
HttpException(message, errorCode, statusCode, errors) ==
  [class |-> "HttpException", message |-> message, errorCode |-> errorCode,
   statusCode |-> statusCode, errors |-> errors]

BadRequestException(message, errorCode) ==
  HttpException(message, errorCode, 400, ErrorsNull)

NotFoundException(message, errorCode) ==
  HttpException(message, errorCode, 404, ErrorsNull)

UnprocessableEntity(message, errorCode, errors) ==
  HttpException(message, errorCode, 422, errors)

InternalException(message, errorCode, errors) ==
  HttpException(message, errorCode, 500, errors)

(* what SignUpSchema.parse throws for a body: a ZodError with one issue    *)
(* per field that is missing or malformed                                  *)
ZodError(issues) == [class |-> "ZodError", message |-> "zod", issues |-> issues]

(* an error no controller expects, e.g. one of the database driver *)
RawErrors ==
  {[class |-> "Error", message |-> m, stack |-> "stack"] :
     m \in {"Unique constraint failed", "Can't reach database server"}}

(* the exceptions the controllers throw *)
ControllerExceptions ==
  {NotFoundException("User does not exists!", ErrorCode.USER_NOT_FOUND),
   NotFoundException("Product not found!", ErrorCode.PRODUCT_NOT_FOUND),
   NotFoundException("Address not found!", ErrorCode.ADDRESS_NOT_FOUND),
   BadRequestException("User already exists!", ErrorCode.USER_ALREADY_EXISTS),
   BadRequestException("Incorrect password!", ErrorCode.INCORRECT_PASSWORD),
   BadRequestException("Address does not belong to user!",
                       ErrorCode.ADDRESS_DOES_NOT_BELONG)}

(* error?.issues *)
issuesOf(error) ==
  IF "issues" \in DOMAIN error THEN ErrorsOf(error.issues) ELSE ErrorsUndefined

(* the message of the caught error passed on to the client *)
errorHandler_raw(error) ==
  IF error.class = "HttpException" THEN error
  ELSE InternalException(error.message, ErrorCode.INTERNAL_EXCEPTION,
                         ErrorsOf({error.message}))

(* the catch of errorHandler: which exception goes to next() *)
errorHandler(error) ==
  IF error.class = "HttpException" THEN error
  ELSE IF error.class = "ZodError"
  THEN BadRequestException("Unprocessable entity!", ErrorCode.UNPROCESSABLE_ENTITY)
  ELSE InternalException("Server error!", ErrorCode.INTERNAL_EXCEPTION,
                         issuesOf(error))

(* errorMiddleware: response.status(error.statusCode).json({...}) *)
errorMiddleware_json(exception) ==
  [message |-> exception.message, errorCode |-> exception.errorCode,
   errors |-> exception.errors]

(* await method(request, response, next) of a wrapped handler rejects *)
handler_throw(p, error) ==
  /\ Free(p)
  /\ UNCHANGED_db
  /\ Goto(p, [Idle EXCEPT !.op = "handler", !.pc = "caught", !.thrown = error])

errorHandler_catch(p) ==
  /\ proc[p].pc = "caught"
  /\ UNCHANGED_db
  /\ Goto(p, [proc[p] EXCEPT !.pc = "next",
                             !.exception = errorHandler(proc[p].thrown)])

errorMiddleware(p) ==
  /\ proc[p].pc = "next"
  /\ UNCHANGED_db
  /\ Goto(p, [proc[p] EXCEPT !.pc = "done",
                             !.status = proc[p].exception.statusCode,
                             !.json = errorMiddleware_json(proc[p].exception),
                             !.sent = proc[p].sent + 1])

(* the fields of a signUp body that SignUpSchema rejects *)
SignUpFields == {"name", "email", "password"}

SignUpSchema_parse(body) == {f \in SignUpFields : ~body[f]}

(* signUp: SignUpSchema.parse(request.body) throws before any query;       *)
(* a body that passes goes on to user.findFirst                            *)
signUp_parse(p, body, email) ==
  IF SignUpSchema_parse(body) = {}
  THEN signUp_find(p, email)
  ELSE /\ Free(p)
       /\ UNCHANGED_db
       /\ Goto(p, [Idle EXCEPT !.op = "signUp", !.pc = "caught",
                     !.thrown = ZodError(SignUpSchema_parse(body))])

(* ============================== routing =============================== *)

Route(method, path, gates, handler) ==
  [method |-> method, path |-> path, gates |-> gates, handler |-> handler]

(* the parameters of the route paths: a parameter matches any one segment *)
Params == {":id"}

(* productsRouters, in the order of registration *)
productsRouters ==
  <<Route("POST", <<>>, <<"authMiddleware", "adminMiddleware">>, "createProduct"),
    Route("PUT", <<":id">>, <<"authMiddleware", "adminMiddleware">>, "updateProduct"),
    Route("DELETE", <<":id">>, <<"authMiddleware", "adminMiddleware">>, "deleteProduct"),
    Route("GET", <<>>, <<"authMiddleware", "adminMiddleware">>, "listProduct"),
    Route("GET", <<":id">>, <<"authMiddleware", "adminMiddleware">>, "getProductById"),
    Route("GET", <<"search">>, <<>>, "searchProducts")>>

(* orderRouters, in the order of registration *)
orderRouters ==
  <<Route("POST", <<>>, <<"authMiddleware">>, "createOrder"),
    Route("GET", <<>>, <<"authMiddleware">>, "listOrders"),
    Route("PUT", <<":id", "cancel">>, <<"authMiddleware">>, "cancelOrder"),
    Route("GET", <<"index">>, <<"authMiddleware", "adminMiddleware">>, "listAllOrders"),
    Route("GET", <<"users", ":id">>, <<"authMiddleware", "adminMiddleware">>,
          "listUserOrders"),
    Route("PUT", <<":id", "status">>, <<"authMiddleware", "adminMiddleware">>,
          "changeStatus"),
    Route("GET", <<":id">>, <<"authMiddleware">>, "getOrderById")>>

Routers == [products |-> productsRouters, orders |-> orderRouters]

(* a route matches a request of its method whose path has its segments,    *)
(* a parameter standing for any segment                                    *)
RouteMatches(route, method, path) ==
  /\ route.method = method
  /\ Len(route.path) = Len(path)
  /\ \A i \in DOMAIN path : route.path[i] \in Params \/ route.path[i] = path[i]

(* no route of the router matches: the request falls through *)
NoRoute == Route("none", <<>>, <<>>, "none")

(* the router walks its routes in the order of registration and hands the  *)
(* request to the first that matches                                       *)
RECURSIVE router_handle(_, _, _)
router_handle(routes, method, path) ==
  IF routes = <<>> THEN NoRoute
  ELSE IF RouteMatches(Head(routes), method, path) THEN Head(routes)
  ELSE router_handle(Tail(routes), method, path)

(* a request arrives at a router: it is handed to the route's middleware   *)
(* chain and handler, or answered 404 when nothing matches                 *)
router_dispatch(p, router, method, path) ==
  /\ Free(p)
  /\ UNCHANGED_db
  /\ LET route == router_handle(Routers[router], method, path)
     IN  Goto(p, [Idle EXCEPT !.op = route.handler, !.pc = "done",
                    !.router = router, !.method = method, !.path = path,
                    !.gates = route.gates,
                    !.status = IF route = NoRoute THEN 404 ELSE 200])

(* ============================ the process ============================= *)

(* startServer(): logSeparator, then await prismaCilent.$connect() *)
startServer(p) ==
  /\ Free(p)
  /\ UNCHANGED_db
  /\ Goto(p, [Idle EXCEPT !.op = "startServer", !.pc = "connect",
                          !.db = "connecting"])

(* $connect resolved: app.listen(PORT) and the two process.on(signal) *)
startServer_listen(p) ==
  /\ proc[p].op = "startServer" /\ proc[p].pc = "connect"
  /\ UNCHANGED_db
  /\ Goto(p, [proc[p] EXCEPT !.pc = "running", !.db = "connected",
                             !.http = "listening", !.handlers = TRUE])

(* $connect rejected: the catch logs and calls process.exit(1) *)
startServer_catch(p) ==
  /\ proc[p].op = "startServer" /\ proc[p].pc = "connect"
  /\ UNCHANGED_db
  /\ Goto(p, [proc[p] EXCEPT !.pc = "exited", !.db = "failed",
                             !.exited = TRUE, !.status = 1])

(* the database let go as soon as the signal arrives *)
shutdownServer_disconnectFirst(node) ==
  [node EXCEPT !.http = IF @ = "listening" THEN "closing" ELSE @,
               !.db = IF @ = "connected" THEN "disconnecting" ELSE @]

(* shutdownServer: server.close(callback); a server that listens stops     *)
(* accepting connections, one already closing or closed stays as it is     *)
shutdownServer(node) ==
  [node EXCEPT !.http = IF @ = "listening" THEN "closing" ELSE @]

(* SIGINT or SIGTERM reaches the process: shutdownServer when the handlers *)
(* are registered, else the default disposition ends the process           *)
process_signal(p, signal) ==
  /\ proc[p].op = "startServer" /\ ~proc[p].exited
  /\ UNCHANGED_db
  /\ IF proc[p].handlers
     THEN Goto(p, shutdownServer(proc[p]))
     ELSE Goto(p, [proc[p] EXCEPT !.pc = "exited", !.exited = TRUE,
                     !.status = IF signal = "SIGINT" THEN 130 ELSE 143])

(* the server has closed (no connection is left): the callback of          *)
(* server.close runs and awaits prismaCilent.$disconnect()                 *)
server_close(p) ==
  /\ proc[p].op = "startServer" /\ ~proc[p].exited
  /\ proc[p].http = "closing"
  /\ \A q \in Procs \ {p} : IsIdle(q)
  /\ UNCHANGED_db
  /\ Goto(p, [proc[p] EXCEPT !.pc = "disconnect", !.http = "closed",
                !.db = IF @ = "connected" THEN "disconnecting" ELSE @])

(* $disconnect resolved: process.exit(0) *)
shutdown_exit(p) ==
  /\ proc[p].op = "startServer" /\ proc[p].pc = "disconnect"
  /\ proc[p].http = "closed"
  /\ UNCHANGED_db
  /\ Goto(p, [proc[p] EXCEPT !.pc = "exited", !.db = "disconnected",
                             !.exited = TRUE, !.status = 0])

(* $disconnect rejected inside the async callback: nothing catches it, the *)
(* process dies of the unhandled rejection or stays up, by the runtime     *)
shutdown_reject(p) ==
  /\ proc[p].op = "startServer" /\ proc[p].pc = "disconnect"
  /\ proc[p].http = "closed"
  /\ UNCHANGED_db
  /\ \E dies \in BOOLEAN :
       IF dies
       THEN Goto(p, [proc[p] EXCEPT !.pc = "exited", !.db = "rejected",
                                    !.exited = TRUE, !.status = 1])
       ELSE Goto(p, [proc[p] EXCEPT !.pc = "hung", !.db = "rejected"])

(* ============================ the system ============================== *)

(* The database as the requests find it: two users have signed up, user 1  *)
(* was made ADMIN, has added one address and has made it the default        *)
(* shipping address with updateUser; user 2 has none.  The catalogue holds  *)
(* two products.                                                            *)
Init ==
  /\ users = [u \in Users |->
                [email |-> u, password |-> hashSync(u),
                 role |-> IF u = 1 THEN "ADMIN" ELSE "USER",
                 defaultShippingAddressId |-> IF u = 1 THEN 1 ELSE Null,
                 defaultBillingAddressId |-> Null]]
  /\ addresses = (1 :> [userId |-> 1])
  /\ price = [i \in Products |-> 1]
  /\ cartItem = <<>>
  /\ nextCartId = 1
  /\ nextAddressId = 2
  /\ order = <<>>
  /\ orderProduct = <<>>
  /\ orderEvent = <<>>
  /\ ghost = <<>>
  /\ proc = [p \in Procs |-> Idle]

(* the cart routes, the quantity of a body drawn from Q *)
CartBodyNext(P, Q) ==
  \/ \E p \in P, u \in Users, i \in Products \cup {NoProduct}, q \in Q :
       addItemToCart_find(p, u, i, q)
  \/ \E p \in P : addItemToCart_update(p)
  \/ \E p \in P : addItemToCart_create(p)
  \/ \E p \in P, u \in Users, c \in CartIds : deleteItemFromCart(p, u, c)
  \/ \E p \in P, u \in Users, c \in CartIds, q \in Q : changeQuantity(p, u, c, q)
  \/ \E p \in P : finish(p)

CartNext(P) == CartBodyNext(P, Quantities)

CheckoutNext(P, maxOrders) ==
  \/ \E p \in P, u \in Users : createOrder_auth(p, u, maxOrders)
  \/ \E p \in P : createOrder_findMany(p)
  \/ \E p \in P : createOrder_address(p)
  \/ \E p \in P : createOrder_order(p)
  \/ \E p \in P : createOrder_event(p)
  \/ \E p \in P : createOrder_deleteMany(p)
  \/ \E p \in P : createOrder_commit(p)
  \/ \E p \in P : createOrder_fail(p)

OrderNext(P) ==
  \/ \E p \in P, u \in Users, o \in OrderIds : cancelOrder_update(p, u, o)
  \/ \E p \in P : cancelOrder_event(p)
  \/ \E p \in P, u \in Users, o \in OrderIds : getOrderById(p, u, o)

ProductNext(P) ==
  \E p \in P, u \in Users, i \in Products \cup {NoProduct}, n \in Prices :
    updateProduct(p, u, i, n)

AddressNext(P) ==
  \/ \E p \in P, u \in Users : addAddress(p, u)
  \/ \E p \in P, u \in Users, a \in AddressIds : deleteAddress(p, u, a)
  \/ \E p \in P, u \in Users, s \in AddressIds \cup {Null}, b \in AddressIds \cup {Null} :
       updateUser_shipping(p, u, s, b)
  \/ \E p \in P : updateUser_billing(p)
  \/ \E p \in P : updateUser_update(p)
  \/ \E p \in P : finish(p)

(* the cart, the checkout and the catalogue, each request served to its    *)
(* end before the next is taken                                            *)
SpecCartSeq ==
  Init /\ [][CartNext({1}) \/ CheckoutNext({1}, MaxOrders) \/ ProductNext({1})]_vars

(* the cart and two checkouts in flight *)
SpecRace ==
  Init /\ [][CartNext(Procs) \/ CheckoutNext(Procs, MaxRaceOrders)]_vars

AuthNext(P) ==
  \/ \E p \in P, t \in Tokens : request_getCurrentUser(p, t)
  \/ \E p \in P, t \in Tokens, u \in UserIds, r \in Roles :
       request_changeUserRole(p, t, u, r)
  \/ \E p \in P : authMiddleware_find(p)
  \/ \E p \in P : changeUserRole_update(p)
  \/ \E p \in P, e \in Emails : signUp_find(p, e)
  \/ \E p \in P : signUp_create(p)
  \/ \E p \in P, u \in Users, s \in AddressIds \cup {Null}, b \in AddressIds \cup {Null} :
       updateUser_shipping(p, u, s, b)
  \/ \E p \in P : updateUser_billing(p)
  \/ \E p \in P : updateUser_update(p)
  \/ \E p \in P : finish(p)

(* the cart requests interleaved with one checkout at a time *)
SpecCheckoutRace ==
  Init /\ [][CartNext(Procs) \/ CheckoutNext(Procs, MaxOrders)]_vars

(* the wrapped handlers throwing, and signUp with any body *)
ErrorNext(P) ==
  \/ \E p \in P, e \in ControllerExceptions \cup RawErrors : handler_throw(p, e)
  \/ \E p \in P, b \in [SignUpFields -> BOOLEAN], e \in Emails : signUp_parse(p, b, e)
  \/ \E p \in P : signUp_create(p)
  \/ \E p \in P : errorHandler_catch(p)
  \/ \E p \in P : errorMiddleware(p)
  \/ \E p \in P : finish(p)

(* errors on their way from the handler to the client *)
SpecErrors == Init /\ [][ErrorNext(Procs)]_vars

Methods == {"GET", "POST", "PUT", "DELETE"}
Segments == {"index", "users", "search", "cancel", "status", "1"}
Paths == UNION {[1..n -> Segments] : n \in 0..MaxPathLen}

RouteNext(P) ==
  \/ \E p \in P, r \in DOMAIN Routers, m \in Methods, path \in Paths :
       router_dispatch(p, r, m, path)
  \/ \E p \in P : finish(p)

(* requests arriving at the products and orders routers *)
SpecRoutes == Init /\ [][RouteNext({1})]_vars

Signals == {"SIGINT", "SIGTERM"}

(* the process on the first slot, the requests it serves on the others: a  *)
(* request is accepted while the server listens, and its connection ends   *)
(* while the process is up                                                 *)
LifecycleNext ==
  \/ startServer(1)
  \/ startServer_listen(1)
  \/ startServer_catch(1)
  \/ \E s \in Signals : process_signal(1, s)
  \/ server_close(1)
  \/ shutdown_exit(1)
  \/ shutdown_reject(1)
  \/ /\ proc[1].http = "listening"
     /\ \E p \in Procs \ {1}, r \in DOMAIN Routers, m \in Methods, path \in Paths :
          router_dispatch(p, r, m, path)
  \/ /\ ~proc[1].exited
     /\ \E p \in Procs \ {1} : finish(p)

(* the life of the process, from startServer() to its exit *)
SpecLifecycle == Init /\ [][LifecycleNext]_vars

Passwords == Emails

LogInNext(P) ==
  \/ \E p \in P, e \in Emails, w \in Passwords : logIn(p, e, w)
  \/ \E p \in P, t \in Tokens : request_getCurrentUser(p, t)
  \/ \E p \in P : authMiddleware_find(p)
  \/ \E p \in P, e \in Emails : signUp_find(p, e)
  \/ \E p \in P : signUp_create(p)
  \/ \E p \in P : finish(p)

(* signing up, logging in and presenting the token *)
SpecLogIn == Init /\ [][LogInNext(Procs)]_vars

(* the cart, with every quantity the body schemas let through *)
SpecCartBody == Init /\ [][CartBodyNext({1}, BodyQuantities)]_vars

(* orders and what happens to them afterwards *)
SpecOrders ==
  Init /\ [][CartNext({1}) \/ CheckoutNext({1}, MaxOrders) \/ OrderNext({1})
             \/ ProductNext({1})]_vars

(* addresses and the users' default addresses *)
SpecAddress == Init /\ [][AddressNext(Procs)]_vars

(* accounts, tokens and roles, two requests interleaved *)
SpecAuth == Init /\ [][AuthNext(Procs)]_vars

(* ============================== claims ================================ *)

UserRows(u) == {c \in DOMAIN cartItem : cartItem[c].userId = u}

Stepped(p) == proc'[p] # proc[p]

(* the order items appended by the step *)
NewOrderProducts == SubSeq(orderProduct', Len(orderProduct) + 1, Len(orderProduct'))

(* C1: a checkout of a non-empty cart that completes successfully creates  *)
(* exactly one Order for the user, exactly one OrderItem per cart line     *)
(* (same productId and quantity), exactly one OrderEvent with status       *)
(* PENDING for that Order, and leaves the user with no CartItem.           *)
C1_Effects(p) ==
  LET u == proc[p].user
      created == (DOMAIN order') \ (DOMAIN order)
  IN  /\ UserRows(u) # {}
      /\ Cardinality(created) = 1
      /\ \A o \in DOMAIN order : order'[o] = order[o]
      /\ \A o \in created :
           /\ order'[o].userId = u
           /\ orderEvent' = Append(orderEvent, [orderId |-> o, status |-> "PENDING"])
           /\ \A i \in DOMAIN NewOrderProducts : NewOrderProducts[i].orderId = o
      /\ SubSeq(orderProduct', 1, Len(orderProduct)) = orderProduct
      /\ Len(NewOrderProducts) = Cardinality(UserRows(u))
      /\ \A c \in UserRows(u) :
           Cardinality({i \in DOMAIN NewOrderProducts :
                          /\ NewOrderProducts[i].productId = cartItem[c].productId
                          /\ NewOrderProducts[i].quantity = cartItem[c].quantity}) = 1
      /\ {c \in DOMAIN cartItem' : cartItem'[c].userId = u} = {}

C1_CheckoutCreatesOrder ==
  [][\A p \in Procs :
       (proc[p].op = "createOrder" /\ proc'[p].pc = "done" /\ proc'[p].body = "order")
         => C1_Effects(p)]_vars

C1_Witness ==
  \E p \in Procs :
    /\ proc[p].op = "createOrder" /\ proc[p].pc = "done" /\ proc[p].body = "order"
    /\ Len(orderProduct) = 2
    /\ \E i \in DOMAIN orderProduct : orderProduct[i].quantity = 2
    /\ UserRows(proc[p].user) = {}

(* C2: checkout is all-or-nothing.  A step of a checkout either leaves     *)
(* Orders, OrderItems, OrderEvents and CartItems as they are, and a failed *)
(* checkout always does, or it adds the Order with its items and its       *)
(* PENDING event and deletes the cart rows at once; in no state does an    *)
(* Order exist while a cart line it was made from is still there.          *)
GhostIds(o) == {ghost[o][i].id : i \in DOMAIN ghost[o]}

C2_AllAtOnce(p) ==
  LET created == (DOMAIN order') \ (DOMAIN order)
  IN  /\ Cardinality(created) = 1
      /\ \A o \in created :
           /\ orderEvent' = Append(orderEvent, [orderId |-> o, status |-> "PENDING"])
           /\ Len(NewOrderProducts) = Len(proc[p].cartItems)
           /\ \A i \in DOMAIN NewOrderProducts : NewOrderProducts[i].orderId = o
      /\ cartItem' = Without(cartItem, proc[p].txDelete)
      /\ proc'[p].status = 200

C2_Atomic ==
  [][/\ \A p \in Procs :
          (proc[p].op = "createOrder" /\ Stepped(p)) =>
             \/ UNCHANGED <<order, orderProduct, orderEvent, cartItem>>
                  /\ (proc'[p].pc = "done" => proc'[p].body # "order")
             \/ C2_AllAtOnce(p)
     /\ \A o \in DOMAIN order' : GhostIds(o)' \cap DOMAIN cartItem' = {}]_vars

C2_Witness ==
  \E p \in Procs :
    /\ proc[p].op = "createOrder" /\ proc[p].pc = "done" /\ proc[p].status = 500
    /\ proc[p].txOrder /\ proc[p].txEvent
    /\ UserRows(proc[p].user) # {}
    /\ order = <<>> /\ orderProduct = <<>> /\ orderEvent = <<>>

(* C3: two concurrent checkouts of one user never turn the same cart line  *)
(* into items of two Orders: at most one Order is made from a cart line.   *)
C3_OneOrderPerCart ==
  \A o1, o2 \in DOMAIN order : o1 # o2 => GhostIds(o1) \cap GhostIds(o2) = {}

(* C4: a checkout that finds the cart empty writes nothing and answers     *)
(* with the non-error "cart is empty".                                     *)
C4_EmptyCartNoWrite ==
  [][\A p \in Procs :
       (proc[p].pc = "findMany" /\ Stepped(p) /\ UserRows(proc[p].user) = {}) =>
          /\ UNCHANGED <<users, addresses, price, cartItem, order, orderProduct,
                         orderEvent>>
          /\ proc'[p].pc = "done"
          /\ proc'[p].status = 200
          /\ proc'[p].body = "cart is empty"
          /\ ~proc'[p].txOrder /\ ~proc'[p].txEvent /\ proc'[p].txDelete = {}]_vars

C4_Witness ==
  \E p \in Procs :
    /\ proc[p].op = "createOrder" /\ proc[p].pc = "done"
    /\ proc[p].body = "cart is empty"
    /\ cartItem # <<>>

(* C5: the netAmount of an Order is the sum over its lines of quantity     *)
(* times the price the product had when the checkout read the cart.        *)
C5_PriceAtCheckout(o, productId) ==
  LET i == CHOOSE j \in DOMAIN ghost[o] : ghost[o][j].productId = productId
  IN  ghost[o][i].price

RECURSIVE C5_Sum(_, _)
C5_Sum(o, rows) ==
  IF rows = {} THEN 0
  ELSE LET k == CHOOSE r \in rows : TRUE
       IN  orderProduct[k].quantity * C5_PriceAtCheckout(o, orderProduct[k].productId)
             + C5_Sum(o, rows \ {k})

C5_Net(o) == C5_Sum(o, {k \in DOMAIN orderProduct : orderProduct[k].orderId = o})

C5_NetAmount == \A o \in DOMAIN order : order[o].netAmount = C5_Net(o)

C5_Witness ==
  \E o \in DOMAIN order :
    /\ Len(ghost[o]) = 2
    /\ ghost[o][1].price # ghost[o][2].price
    /\ \E i \in DOMAIN ghost[o] : ghost[o][i].quantity = 2 /\ ghost[o][i].price = 2
    /\ order[o].netAmount = 5

(* C6: no operation changes the netAmount of an Order that exists, and an  *)
(* order fetched after the prices of its products changed shows the        *)
(* netAmount computed at checkout.                                         *)
C6_NetAmountFrozen ==
  [][/\ \A o \in DOMAIN order :
          o \in DOMAIN order' /\ order'[o].netAmount = order[o].netAmount
     /\ \A p \in Procs :
          (proc'[p].pc = "done" /\ proc'[p].op = "getOrderById") =>
             \A j \in proc'[p].data : j.netAmount = C5_Net(j.id)']_vars

C6_Witness ==
  \E p \in Procs :
    /\ proc[p].pc = "done" /\ proc[p].op = "getOrderById" /\ proc[p].status = 200
    /\ \E j \in proc[p].data :
         /\ j.netAmount = C5_Net(j.id)
         /\ \E i \in DOMAIN ghost[j.id] :
              price[ghost[j.id][i].productId] # ghost[j.id][i].price

(* C7: served one after the other, adds never leave a user with two rows   *)
(* of one product, and an add of a product already in the user's own cart  *)
(* creates no row and makes that row's quantity the old one plus the added.*)
C7_OneRowPerProduct ==
  \A c, d \in DOMAIN cartItem :
    (cartItem[c].userId = cartItem[d].userId
       /\ cartItem[c].productId = cartItem[d].productId) => c = d

C7_AddMerges ==
  [][/\ C7_OneRowPerProduct'
     /\ \A p \in Procs :
          (proc[p].op = "addItemToCart" /\ proc'[p].pc = "done") =>
             \A c \in UserRows(proc[p].user) :
               cartItem[c].productId = proc[p].id =>
                 /\ DOMAIN cartItem' = DOMAIN cartItem
                 /\ cartItem'[c].quantity = cartItem[c].quantity + proc[p].quantity]_vars

C7_Witness ==
  \E p \in Procs :
    /\ proc[p].pc = "done" /\ proc[p].op = "addItemToCart"
    /\ proc[p].body = "cartUpdated"
    /\ \E c \in proc[p].data :
         /\ c \in DOMAIN cartItem
         /\ cartItem[c].userId = proc[p].user
         /\ cartItem[c].quantity = 2

(* C8: no cart operation of a user creates, changes or deletes a CartItem  *)
(* of another user.                                                        *)
CartOps == {"addItemToCart", "changeQuantity", "deleteItemFromCart"}

C8_CartIsolation ==
  [][\A p \in Procs :
       (Stepped(p) /\ (proc[p].op \in CartOps \/ proc'[p].op \in CartOps)) =>
          LET actor == IF proc[p].op \in CartOps THEN proc[p].user ELSE proc'[p].user
          IN  /\ \A c \in DOMAIN cartItem :
                   cartItem[c].userId # actor =>
                      c \in DOMAIN cartItem' /\ cartItem'[c] = cartItem[c]
              /\ \A c \in (DOMAIN cartItem') \ (DOMAIN cartItem) :
                   cartItem'[c].userId = actor]_vars

(* C9: a user who is not ADMIN and does not own an Order can neither       *)
(* cancel it, its status and events stay as they are, nor read it with     *)
(* getOrderById.                                                           *)
C9_OrderIsolation ==
  [][\A p \in Procs :
       /\ (proc'[p].pc = "done" /\ proc'[p].op = "getOrderById"
             /\ users[proc'[p].user].role # "ADMIN") =>
            \A j \in proc'[p].data : j.userId = proc'[p].user
       /\ (Stepped(p) /\ proc'[p].op = "cancelOrder"
             /\ users[proc'[p].user].role # "ADMIN") =>
            \A o \in DOMAIN order :
              (o = proc'[p].id /\ order[o].userId # proc'[p].user) =>
                 /\ order'[o].status = order[o].status
                 /\ orderEvent' = orderEvent
                 /\ (proc'[p].pc = "done" => proc'[p].status # 200)]_vars

(* C10: deleteAddress by a user on an Address of another user fails and    *)
(* leaves the Address in place.                                            *)
C10_AddressIsolation ==
  [][\A p \in Procs :
       (Stepped(p) /\ proc'[p].op = "deleteAddress") =>
          \A a \in DOMAIN addresses :
            addresses[a].userId # proc'[p].user =>
               /\ a \in DOMAIN addresses'
               /\ (proc'[p].id = a => proc'[p].status # 200)]_vars

(* C11: every non-null defaultShippingAddressId and defaultBillingAddressId *)
(* of a user names an Address that exists and belongs to that user.        *)
C11_DefaultsOwned ==
  \A u \in DOMAIN users :
    \A d \in {users[u].defaultShippingAddressId, users[u].defaultBillingAddressId} :
      d # Null => (d \in DOMAIN addresses /\ addresses[d].userId = u)

(* the events of an order, and the status of the one created last *)
EventsOf(o) == {i \in DOMAIN orderEvent : orderEvent[i].orderId = o}

LastStatus(o) ==
  orderEvent[CHOOSE i \in EventsOf(o) : \A j \in EventsOf(o) : j <= i].status

(* C12: when a createOrder or cancelOrder has completed, every Order has   *)
(* events and its status is the status of the event created last, and a    *)
(* successful cancelOrder has appended exactly one OrderEvent, for its     *)
(* order.                                                                  *)
C12_StatusIsLastEvent ==
  [][\A p \in Procs :
       (Stepped(p) /\ proc'[p].pc = "done"
          /\ proc'[p].op \in {"createOrder", "cancelOrder"}) =>
          /\ \A o \in DOMAIN order' :
               EventsOf(o)' # {} /\ order'[o].status = LastStatus(o)'
          /\ (proc'[p].op = "cancelOrder" /\ proc'[p].status = 200) =>
               /\ Len(orderEvent') = Len(orderEvent) + 1
               /\ orderEvent'[Len(orderEvent')].orderId = proc'[p].id]_vars

(* C13: a cancelOrder that failed leaves no Order whose status it updated  *)
(* without the matching OrderEvent: the status of the order it named is    *)
(* still the status of that order's last event.                            *)
C13_TransitionAtomic ==
  \A p \in Procs :
    (proc[p].op = "cancelOrder" /\ proc[p].pc = "done" /\ proc[p].status # 200
       /\ proc[p].id \in DOMAIN order) =>
       (EventsOf(proc[p].id) # {} /\ order[proc[p].id].status = LastStatus(proc[p].id))

(* C14: the status of an Order moves only along PENDING -> ACCEPTED ->     *)
(* OUT_FOR_DELIVERY -> DELIVERED, or to cancelled from PENDING or          *)
(* ACCEPTED, and a cancelOrder on an order that is OUT_FOR_DELIVERY,       *)
(* DELIVERED or already cancelled is rejected and appends no OrderEvent.   *)
(* Either spelling of the cancelled status counts as cancelled here.       *)
Cancelled == {"CANCELLED", "CANCELED"}

C14_Allowed ==
  {<<"PENDING", "ACCEPTED">>, <<"ACCEPTED", "OUT_FOR_DELIVERY">>,
   <<"OUT_FOR_DELIVERY", "DELIVERED">>}
    \cup ({"PENDING", "ACCEPTED"} \X Cancelled)

C14_StateMachine ==
  [][/\ \A o \in DOMAIN order :
          order'[o].status # order[o].status =>
             <<order[o].status, order'[o].status>> \in C14_Allowed
     /\ \A p \in Procs :
          (IsIdle(p) /\ proc'[p].op = "cancelOrder" /\ proc'[p].id \in DOMAIN order
             /\ order[proc'[p].id].status
                  \in {"OUT_FOR_DELIVERY", "DELIVERED"} \cup Cancelled) =>
             /\ proc'[p].pc = "done" /\ proc'[p].status # 200
             /\ UNCHANGED <<order, orderEvent>>]_vars

(* C15: every status stored on an Order or an OrderEvent is one of         *)
(* PENDING, ACCEPTED, OUT_FOR_DELIVERY, DELIVERED, CANCELLED.              *)
OrderEventStatus ==
  {"PENDING", "ACCEPTED", "OUT_FOR_DELIVERY", "DELIVERED", "CANCELLED"}

C15_StatusValues ==
  /\ \A o \in DOMAIN order : order[o].status \in OrderEventStatus
  /\ \A i \in DOMAIN orderEvent : orderEvent[i].status \in OrderEventStatus

(* C16: Orders, OrderItems and OrderEvents only grow: no step removes an   *)
(* Order or changes its user, amount or address, no step removes or        *)
(* changes an OrderItem or an OrderEvent that exists.                      *)
C16_AppendOnly ==
  [][/\ \A o \in DOMAIN order :
          /\ o \in DOMAIN order'
          /\ [order'[o] EXCEPT !.status = "any"] = [order[o] EXCEPT !.status = "any"]
     /\ Len(orderProduct') >= Len(orderProduct)
     /\ SubSeq(orderProduct', 1, Len(orderProduct)) = orderProduct
     /\ Len(orderEvent') >= Len(orderEvent)
     /\ SubSeq(orderEvent', 1, Len(orderEvent)) = orderEvent]_vars

C16_Witness ==
  /\ Len(orderEvent) = 3
  /\ orderEvent[1].status = "PENDING"
  /\ orderEvent[2].status = "CANCELED" /\ orderEvent[3].status = "CANCELED"
  /\ orderProduct # <<>>
  /\ \E o \in DOMAIN order : order[o].status = "CANCELED"

(* the routes behind authMiddleware that carry their token in the model *)
GatedRoutes == {"getCurrentUser", "changeUserRole"}

(* C17: authMiddleware answers Unauthorized, attaches no user and runs no  *)
(* handler when the header is absent, when verify rejects the token, or    *)
(* when the token's userId names no user; a user is attached and a handler *)
(* runs only for a verified token, and the user is the one it names.       *)
C17_AuthGate ==
  [][\A p \in Procs :
       /\ (IsIdle(p) /\ proc'[p].op \in GatedRoutes
             /\ proc'[p].token.kind # "valid") =>
            /\ proc'[p].pc = "done" /\ proc'[p].body = "UNAUTHORIZED"
            /\ proc'[p].user = Null /\ ~proc'[p].handled
            /\ UNCHANGED users
       /\ (proc[p].pc = "authFind" /\ Stepped(p)
             /\ proc[p].token.userId \notin DOMAIN users) =>
            /\ proc'[p].pc = "done" /\ proc'[p].body = "UNAUTHORIZED"
            /\ proc'[p].user = Null /\ ~proc'[p].handled
            /\ UNCHANGED users
       /\ (proc'[p].op \in GatedRoutes
             /\ (proc'[p].handled \/ proc'[p].user # Null)) =>
            /\ proc'[p].token.kind = "valid"
            /\ proc'[p].token.userId = proc'[p].user
            /\ proc[p].pc = "authFind" =>
                 /\ proc[p].token.userId \in DOMAIN users
                 /\ proc'[p].user = proc[p].token.userId
                 /\ proc'[p].role = users[proc[p].token.userId].role]_vars

C17_Witness ==
  /\ \E p \in Procs :
       /\ proc[p].op = "getCurrentUser" /\ proc[p].pc = "done"
       /\ proc[p].token.kind = "valid" /\ proc[p].token.userId \notin DOMAIN users
       /\ proc[p].body = "UNAUTHORIZED"
  /\ \E q \in Procs :
       /\ proc[q].op = "getCurrentUser" /\ proc[q].pc = "done"
       /\ proc[q].handled /\ proc[q].user = 2 /\ proc[q].status = 200

(* C18: an authenticated user who is not ADMIN asking for an admin-only    *)
(* route is refused, the handler does not run, and the refusal is not the  *)
(* Unauthorized answer given to a missing or invalid credential.           *)
C18_ForbiddenNotUnauthorized ==
  [][\A p \in Procs :
       (proc[p].pc = "authFind" /\ proc[p].op = "changeUserRole" /\ Stepped(p)
          /\ proc[p].payload \in DOMAIN users
          /\ users[proc[p].payload].role # "ADMIN") =>
          /\ proc'[p].pc = "done" /\ ~proc'[p].handled
          /\ UNCHANGED users
          /\ proc'[p].body # "UNAUTHORIZED"]_vars

(* C19: a new user has role USER, and the role of a user changes only in   *)
(* the update of a changeUserRole whose caller was ADMIN when the request  *)
(* was authenticated.                                                      *)
C19_RoleChange ==
  [][/\ \A u \in DOMAIN users' :
          IF u \in DOMAIN users
          THEN users'[u].role # users[u].role =>
                 \E p \in Procs :
                   /\ proc[p].op = "changeUserRole" /\ proc[p].pc = "roleUpdate"
                   /\ Stepped(p) /\ proc[p].id = u /\ proc[p].role = "ADMIN"
          ELSE users'[u].role = "USER"
     /\ \A p \in Procs :
          (proc'[p].pc = "roleUpdate" /\ proc[p].pc # "roleUpdate") =>
             /\ proc[p].payload \in DOMAIN users
             /\ users[proc[p].payload].role = "ADMIN"
             /\ proc'[p].user = proc[p].payload
             /\ proc'[p].role = "ADMIN"]_vars

C19_Witness ==
  /\ DOMAIN users = UserIds
  /\ users[1].role = "USER" /\ users[2].role = "ADMIN" /\ users[3].role = "USER"
  /\ users[2].defaultShippingAddressId = Null
  /\ \E p \in Procs :
       /\ proc[p].op = "changeUserRole" /\ proc[p].pc = "done"
       /\ proc[p].status = 200 /\ proc[p].user = 2 /\ proc[p].id = 1

(* C20: every stored CartItem has a quantity above zero. *)
C20_PositiveQuantity == \A c \in DOMAIN cartItem : cartItem[c].quantity > 0

(* the rows of user u for product i, and the quantity they hold together *)
LineRows(rows, u, i) ==
  {c \in DOMAIN rows : rows[c].userId = u /\ rows[c].productId = i}

RECURSIVE LineQuantity(_, _)
LineQuantity(rows, ids) ==
  IF ids = {} THEN 0
  ELSE LET c == CHOOSE d \in ids : TRUE
       IN  rows[c].quantity + LineQuantity(rows, ids \ {c})

(* C21: an addItemToCart that succeeds, in a cart table that holds only    *)
(* the caller's rows, leaves one row for (user, product), and that row     *)
(* holds the quantity the user's rows of the product held before the step  *)
(* plus the quantity added: under any interleaving of two adds no          *)
(* increment is lost and no second row appears.                            *)
C21_NoLostIncrement ==
  [][\A p \in Procs :
       (/\ proc[p].op = "addItemToCart" /\ proc[p].pc \in {"update", "create"}
        /\ proc'[p].pc = "done" /\ proc'[p].status = 200
        /\ \A c \in DOMAIN cartItem : cartItem[c].userId = proc[p].user)
       => LET u == proc[p].user
              i == proc[p].id
          IN  /\ Cardinality(LineRows(cartItem', u, i)) = 1
              /\ LineQuantity(cartItem', LineRows(cartItem', u, i))
                   = LineQuantity(cartItem, LineRows(cartItem, u, i))
                       + proc[p].quantity]_vars

(* the cart lines of a set of rows, as (row, productId, quantity) *)
CartLines(rows, ids) ==
  {[id |-> c, productId |-> rows[c].productId, quantity |-> rows[c].quantity] :
     c \in ids}

(* C22: every cart line a committing checkout deletes is, with the         *)
(* productId and the quantity it has when deleted, one of the lines the    *)
(* checkout read, recorded as OrderItems and counted in netAmount: no line *)
(* or quantity added by a concurrent cart request of the user is deleted   *)
(* without being part of the order.                                        *)
C22_DeletesWhatItOrdered ==
  [][\A p \in Procs :
       (proc[p].op = "createOrder" /\ proc[p].pc = "commit"
        /\ proc'[p].pc = "done" /\ proc'[p].body = "order")
       => CartLines(cartItem, (DOMAIN cartItem) \ (DOMAIN cartItem'))
            \subseteq {[id |-> proc[p].cartItems[i].id,
                productId |-> proc[p].cartItems[i].productId,
                quantity |-> proc[p].cartItems[i].quantity] :
                 i \in DOMAIN proc[p].cartItems}]_vars

(* C23: a checkout of a non-empty cart whose default shipping address is   *)
(* unset or names no Address fails at the address lookup with              *)
(* AddressNotConfigured, writes no Order, OrderItem or OrderEvent and      *)
(* leaves the cart intact; no Order is stored without an address.          *)
C23_AddressNotConfigured ==
  [][/\ \A p \in Procs :
          (/\ proc[p].op = "createOrder" /\ proc[p].pc = "address" /\ Stepped(p)
           /\ proc[p].defaultShippingAddressId \notin DOMAIN addresses)
          => /\ proc'[p].pc = "done"
             /\ proc'[p].body = "ADDRESS_NOT_CONFIGURED"
             /\ UNCHANGED <<order, orderProduct, orderEvent, cartItem>>
     /\ \A o \in DOMAIN order' : order'[o].address # Null]_vars

(* C24: an error thrown by a wrapped handler is answered exactly once,     *)
(* with a body of message, numeric errorCode and errors.  An HttpException *)
(* keeps its status, code and message; an error the code does not          *)
(* anticipate is answered 500 with INTERNAL_EXCEPTION and the generic      *)
(* message, and neither its message nor its stack reaches the client.      *)
C24_Exposed(p) == {proc[p].thrown.message, proc[p].thrown.stack}

C25_ValidationResponse ==
  \A p \in Procs :
    (proc[p].pc = "done" /\ proc[p].thrown.class = "ZodError") =>
      /\ proc[p].status = 422
      /\ proc[p].json.errorCode = 2001
      /\ proc[p].json.errors = ErrorsOf(proc[p].thrown.issues)

(* C26: at most one User exists per email, and a signUp that creates no    *)
(* User because the email is taken, the loser of two concurrent signUps    *)
(* included, is answered 400 with USER_ALREADY_EXISTS.                     *)
C26_DuplicateSignUp ==
  /\ \A u, v \in DOMAIN users : users[u].email = users[v].email => u = v
  /\ \A p \in Procs :
       (proc[p].op = "signUp" /\ proc[p].pc = "done" /\ proc[p].body # "user") =>
          proc[p].status = 400 /\ proc[p].body = "USER_ALREADY_EXISTS"

(* the routes of a router that name a literal segment and match a request *)
LiteralRoutes(router, method, path) ==
  {i \in DOMAIN Routers[router] :
     /\ RouteMatches(Routers[router][i], method, path)
     /\ \E k \in DOMAIN path : Routers[router][i].path[k] = path[k]}

(* C27: a request whose path is that of a route with a literal segment     *)
(* (GET /orders/index, GET /orders/users/:id, GET /products/search) is     *)
(* handled by that route's handler behind that route's gates, never by a   *)
(* parameterized route of the same router; GET /products/search reaches    *)
(* searchProducts and passes no gate.                                      *)
C27_LiteralRouteWins ==
  \A p \in Procs :
    (proc[p].pc = "done" /\ proc[p].router # "none") =>
       \A i \in LiteralRoutes(proc[p].router, proc[p].method, proc[p].path) :
         /\ proc[p].op = Routers[proc[p].router][i].handler
         /\ proc[p].gates = Routers[proc[p].router][i].gates

(* C28: the server listens only after the database connect has succeeded;  *)
(* a failed connect ends the process with code 1 and the server never      *)
(* listened; after a signal the database is disconnected only once the     *)
(* server has closed, and the process exits with code 0 only after that    *)
(* disconnect.                                                             *)
C28_Lifecycle ==
  \A p \in Procs :
    proc[p].op = "startServer" =>
      /\ proc[p].http # "none" => proc[p].db \notin {"none", "connecting", "failed"}
      /\ proc[p].db = "failed" =>
           proc[p].exited /\ proc[p].status = 1 /\ proc[p].http = "none"
      /\ proc[p].db \in {"disconnecting", "disconnected"} => proc[p].http = "closed"
      /\ proc[p].db = "disconnected" => proc[p].exited /\ proc[p].status = 0
      /\ (proc[p].exited /\ proc[p].status = 0) =>
           proc[p].http = "closed" /\ proc[p].db = "disconnected"

C28_Witness ==
  \E p \in Procs :
    /\ proc[p].op = "startServer" /\ proc[p].exited /\ proc[p].status = 0
    /\ proc[p].http = "closed" /\ proc[p].db = "disconnected"

(* C29: a step of createOrder by user A deletes only CartItems of A,       *)
(* creates Orders only for A with their items and events, and leaves the   *)
(* other users' CartItems, every existing Order, OrderItem and OrderEvent, *)
(* and all Products, Users and Addresses as they are.                      *)
C29_Frame(p) ==
  LET A == proc[p].user
      created == (DOMAIN order') \ (DOMAIN order)
  IN  /\ UNCHANGED <<users, addresses, price>>
      /\ \A c \in DOMAIN cartItem :
           cartItem[c].userId # A => c \in DOMAIN cartItem' /\ cartItem'[c] = cartItem[c]
      /\ DOMAIN cartItem' \subseteq DOMAIN cartItem
      /\ \A o \in DOMAIN order : o \in DOMAIN order' /\ order'[o] = order[o]
      /\ \A o \in created : order'[o].userId = A
      /\ SubSeq(orderProduct', 1, Len(orderProduct)) = orderProduct
      /\ \A i \in DOMAIN NewOrderProducts : NewOrderProducts[i].orderId \in created
      /\ SubSeq(orderEvent', 1, Len(orderEvent)) = orderEvent
      /\ \A i \in (Len(orderEvent) + 1)..Len(orderEvent') :
           orderEvent'[i].orderId \in created

C29_CheckoutFrame ==
  [][\A p \in Procs : (proc[p].op = "createOrder" /\ Stepped(p)) => C29_Frame(p)]_vars

C29_Witness ==
  \E p \in Procs :
    /\ proc[p].op = "createOrder" /\ proc[p].pc = "done" /\ proc[p].body = "order"
    /\ \E o \in DOMAIN order : order[o].userId = proc[p].user
    /\ \E c \in DOMAIN cartItem : cartItem[c].userId # proc[p].user

(* C30: a logIn succeeds only for the email of an existing User u with the *)
(* matching password, and its token, presented to authMiddleware, passes   *)
(* and resolves to u and to no other user; a logIn with an unknown email   *)
(* is answered 404 USER_NOT_FOUND, one with a wrong password 400            *)
(* INCORRECT_PASSWORD, and neither is given a token.                       *)
C30_LogInAnswer(p) ==
  LET found == {u \in DOMAIN users : users[u].email = proc[p].email}
  IN  /\ proc[p].status = 200 =>
           /\ proc[p].user \in found
           /\ compareSync(proc[p].password, users[proc[p].user].password)
           /\ proc[p].token.kind = "valid"
      /\ proc[p].status # 200 =>
           /\ proc[p].token = NoToken
           /\ proc[p].status = 404 => proc[p].body = "USER_NOT_FOUND"
           /\ proc[p].status = 400 =>
                /\ proc[p].body = "INCORRECT_PASSWORD"
                /\ found # {}
                /\ \A u \in found : ~compareSync(proc[p].password, users[u].password)
           /\ proc[p].status \in {400, 404}

C30_RoundTrip ==
  [][\A p \in Procs :
       /\ (proc'[p].op = "logIn" /\ proc'[p].pc = "done" /\ Stepped(p))
            => C30_LogInAnswer(p)'
       /\ \A q \in Procs :
            (/\ proc[p].op = "logIn" /\ proc[p].pc = "done" /\ proc[p].status = 200
             /\ proc[q].op = "getCurrentUser" /\ proc[q].token = proc[p].token
             /\ proc[q].pc # "done" /\ proc'[q].pc = "done")
            => /\ proc'[q].status = 200 /\ proc'[q].handled
               /\ proc'[q].user = proc[p].user]_vars

C30_Witness ==
  \E p, q \in Procs :
    /\ proc[p].op = "logIn" /\ proc[p].pc = "done" /\ proc[p].status = 200
    /\ proc[q].op = "getCurrentUser" /\ proc[q].pc = "done"
    /\ proc[q].token = proc[p].token /\ proc[q].user = proc[p].user
    /\ proc[p].user = MaxUsers

====
